---- MODULE Spec2Model ----
(***************************************************************************)
(* Model of groupy/garray/Oh_array.py: the enumeration loop of             *)
(* OhArray.get_elements, the construction of self.elements, and the        *)
(* single-element conversions get_int and get_mat.                         *)
(*                                                                         *)
(* A 3x3 matrix is a tuple of three rows, each a tuple of three integers,  *)
(* the nested-list form the code stores in element_list.  Python indices   *)
(* are 0-based; positions of TLA+ sequences are 1-based, so the index      *)
(* returned by list.index is the position minus one.                       *)
(***************************************************************************)
EXTENDS Integers, Sequences, FiniteSets

VARIABLES pc, element_list, current, revisits, elements, built, call, ncalls

vars == <<pc, element_list, current, revisits, elements, built, call, ncalls>>

\* ------------------------------------------------------------------ bounds

\* Cap on the loop iterations whose product is already in element_list.
MaxRevisits == 2

\* random.choice is explored over the whole of element_list while the list has
\* at most MaxFreeLen entries, and over its generator entries g1, g2 afterwards
\* (the loop with every choice at every length has more than 10^7 states).
MaxFreeLen == 3

\* Cap on the number of conversion calls made on the constructed container.
MaxCalls == 2

\* ---------------------------------------------------------------- constants

\* while len(element_list) < 24
GroupOrder == 24

g1 == << <<1, 0, 0>>, <<0, 0, -1>>, <<0, 1, 0>> >>

g2 == << <<0, 0, 1>>, <<0, 1, 0>>, <<-1, 0, 0>> >>

\* ------------------------------------------------------------ matrix helpers

Entries == {-1, 0, 1}

Rows == {<<a, b, c>> : a \in Entries, b \in Entries, c \in Entries}

\* Every 3x3 matrix with entries in {-1,0,1}.
Matrices == {<<r1, r2, r3>> : r1 \in Rows, r2 \in Rows, r3 \in Rows}

Identity == << <<1, 0, 0>>, <<0, 1, 0>>, <<0, 0, 1>> >>

\* np.dot of two 3x3 matrices, .tolist()
Dot(a, b, i, j) == a[i][1] * b[1][j] + a[i][2] * b[2][j] + a[i][3] * b[3][j]

Mul(a, b) ==
  << <<Dot(a, b, 1, 1), Dot(a, b, 1, 2), Dot(a, b, 1, 3)>>,
     <<Dot(a, b, 2, 1), Dot(a, b, 2, 2), Dot(a, b, 2, 3)>>,
     <<Dot(a, b, 3, 1), Dot(a, b, 3, 2), Dot(a, b, 3, 3)>> >>

\* element[0:3] * s : every row multiplied by the scalar s
Scale(a, s) ==
  << <<a[1][1] * s, a[1][2] * s, a[1][3] * s>>,
     <<a[2][1] * s, a[2][2] * s, a[2][3] * s>>,
     <<a[3][1] * s, a[3][2] * s, a[3][3] * s>> >>

\* (-1) ** m for m in {0, 1}
MirrorSign(m) == IF m % 2 = 0 THEN 1 ELSE -1

\* ------------------------------------------------------------- list helpers

Range(L) == {L[k] : k \in 1..Len(L)}

\* x in L
Contains(L, x) == \E k \in 1..Len(L) : L[k] = x

\* L.index(x), 0-based; only used where Contains(L, x)
IndexOf(L, x) == (CHOOSE k \in 1..Len(L) : L[k] = x /\ \A j \in 1..(k - 1) : L[j] # x) - 1

\* Python's order on two lists of three integers: the first differing entry decides
LessRow(x, y) ==
  \/ x[1] < y[1]
  \/ x[1] = y[1] /\ (x[2] < y[2] \/ (x[2] = y[2] /\ x[3] < y[3]))

\* Python's order on two nested lists (3 rows of 3): the first differing row decides
Less(a, b) ==
  \/ LessRow(a[1], b[1])
  \/ a[1] = b[1] /\ (LessRow(a[2], b[2]) \/ (a[2] = b[2] /\ LessRow(a[3], b[3])))

RECURSIVE InsertSorted(_, _)
InsertSorted(x, s) ==
  IF s = <<>> THEN <<x>>
  ELSE IF Less(Head(s), x) THEN <<Head(s)>> \o InsertSorted(x, Tail(s))
  ELSE <<x>> \o s

RECURSIVE InsertSortedDescending(_, _)
InsertSortedDescending(x, s) ==
  IF s = <<>> THEN <<x>>
  ELSE IF Less(x, Head(s)) THEN <<Head(s)>> \o InsertSortedDescending(x, Tail(s))
  ELSE <<x>> \o s

\* Mutant of SortList: element_list.sort(reverse=True)
RECURSIVE SortListDescending(_)
SortListDescending(L) ==
  IF L = <<>> THEN <<>> ELSE InsertSortedDescending(Head(L), SortListDescending(Tail(L)))

\* element_list.sort(): ascending, stable
RECURSIVE SortList(_)
SortList(L) ==
  IF L = <<>> THEN <<>> ELSE InsertSorted(Head(L), SortList(Tail(L)))

\* ------------------------------------------------------------- get_elements

\* random.choice(element_list), within the exploration bound MaxFreeLen
Choices(L) == IF Len(L) <= MaxFreeLen THEN Range(L) ELSE Range(L) \cap {g1, g2}

\* Mutant of Product: the running matrix is never advanced (always g1 times the choice)
ProductStale(cur, multiplier) == Mul(g1, multiplier)

\* current = np.dot(np.array(current), np.array(multiplier)).tolist()
Product(cur, multiplier) == Mul(cur, multiplier)

\* Mutant of LoopBody: the product is appended without the membership test
LoopBodyNoDedup(L, cur, multiplier) ==
  [element_list |-> SortList(Append(L, Product(cur, multiplier))),
   current |-> Product(cur, multiplier)]

\* One iteration of the while loop with the chosen multiplier.
LoopBody(L, cur, multiplier) ==
  LET product == Product(cur, multiplier)
      appended == IF Contains(L, product) THEN L ELSE Append(L, product)
  IN  [element_list |-> SortList(appended), current |-> product]

NoCall == [op |-> "none", arg |-> <<>>, ret |-> <<>>]

Init ==
  /\ pc = "loop"
  /\ element_list = <<g1, g2>>
  /\ current = g1
  /\ revisits = 0
  /\ elements = <<>>
  /\ built = <<>>
  /\ call = NoCall
  /\ ncalls = 0

Step(multiplier) ==
  /\ pc = "loop"
  /\ Len(element_list) < GroupOrder
  /\ LET present == Contains(element_list, Product(current, multiplier))
         next == LoopBody(element_list, current, multiplier)
     IN  /\ present => revisits < MaxRevisits
         /\ element_list' = next.element_list
         /\ current' = next.current
         /\ revisits' = IF present THEN revisits + 1 ELSE revisits
  /\ UNCHANGED <<pc, elements, built, call, ncalls>>

Iterate == \E multiplier \in Choices(element_list) : Step(multiplier)

\* The loop exits, get_elements returns and __init__ stores self.elements.
Construct ==
  /\ pc = "loop"
  /\ ~(Len(element_list) < GroupOrder)
  /\ pc' = "done"
  /\ elements' = element_list
  /\ built' = element_list
  /\ element_list' = <<>>
  /\ current' = <<>>
  /\ revisits' = 0
  /\ UNCHANGED <<call, ncalls>>

\* ------------------------------------------------------------- conversions

\* The 48 integer pairs (index, mirror)
IntPairs == {<<i, m>> : i \in 0..(GroupOrder - 1), m \in {0, 1}}

\* Mutant of get_mat: the mirror flag is ignored
get_mat_unmirrored(els, index, mirror) == els[index + 1]

\* Mutant of get_mat: element[0:2] is scaled instead of element[0:3]
get_mat_two_rows(els, index, mirror) ==
  LET e == els[index + 1]
      s == MirrorSign(mirror)
  IN  << <<e[1][1] * s, e[1][2] * s, e[1][3] * s>>,
         <<e[2][1] * s, e[2][2] * s, e[2][3] * s>>,
         e[3] >>

\* get_mat: the value returned
get_mat(els, index, mirror) == Scale(els[index + 1], MirrorSign(mirror))

\* Mutant of get_mat_elements: the entry is scaled in place, without the copy
get_mat_elements_in_place(els, index, mirror) ==
  [els EXCEPT ![index + 1] = Scale(els[index + 1], MirrorSign(mirror))]

\* get_mat: self.elements after the call (the entry is deep-copied before scaling)
get_mat_elements(els, index, mirror) == els

\* Mutant of get_int: the mirror flag is never detected (m = 0)
get_int_unmirrored(els, mat_data) ==
  IF Contains(els, mat_data)
  THEN [raised |-> FALSE, i |-> IndexOf(els, mat_data), m |-> 0]
  ELSE [raised |-> TRUE, i |-> -1, m |-> -1]

\* Mutant of get_int: the mirror test is inverted (m = 1 if present else 0)
get_int_inverted(els, mat_data) ==
  LET m == IF Contains(els, mat_data) THEN 1 ELSE 0
      orig_data == Scale(mat_data, MirrorSign(m))
  IN  IF Contains(els, orig_data)
      THEN [raised |-> FALSE, i |-> IndexOf(els, orig_data), m |-> m]
      ELSE [raised |-> TRUE, i |-> -1, m |-> -1]

\* Mutant of get_int: a failed lookup yields index -1 instead of raising
get_int_no_raise(els, mat_data) ==
  LET m == IF Contains(els, mat_data) THEN 0 ELSE 1
      orig_data == Scale(mat_data, MirrorSign(m))
  IN  IF Contains(els, orig_data)
      THEN [raised |-> FALSE, i |-> IndexOf(els, orig_data), m |-> m]
      ELSE [raised |-> FALSE, i |-> -1, m |-> m]

\* get_int: the value returned, or the ValueError raised by list.index
get_int(els, mat_data) ==
  LET m == IF Contains(els, mat_data) THEN 0 ELSE 1
      orig_data == Scale(mat_data, MirrorSign(m))
  IN  IF Contains(els, orig_data)
      THEN [raised |-> FALSE, i |-> IndexOf(els, orig_data), m |-> m]
      ELSE [raised |-> TRUE, i |-> -1, m |-> -1]

\* get_int: self.elements after the call (the argument is deep-copied before scaling)
get_int_elements(els, mat_data) == els

GetMat(index, mirror) ==
  /\ pc = "done"
  /\ ncalls < MaxCalls
  /\ pc' = "returned"
  /\ ncalls' = ncalls + 1
  /\ call' = [op |-> "get_mat", arg |-> <<index, mirror>>,
              ret |-> get_mat(elements, index, mirror)]
  /\ elements' = get_mat_elements(elements, index, mirror)
  /\ UNCHANGED <<element_list, current, revisits, built>>

GetInt(mat_data) ==
  /\ pc = "done"
  /\ ncalls < MaxCalls
  /\ pc' = "returned"
  /\ ncalls' = ncalls + 1
  /\ call' = [op |-> "get_int", arg |-> mat_data, ret |-> get_int(elements, mat_data)]
  /\ elements' = get_int_elements(elements, mat_data)
  /\ UNCHANGED <<element_list, current, revisits, built>>

\* get_int on the matrix product of two get_mat results
GetIntOfProduct(x, y) ==
  /\ pc = "done"
  /\ ncalls < MaxCalls
  /\ pc' = "returned"
  /\ ncalls' = ncalls + 1
  /\ LET prod == Mul(get_mat(elements, x[1], x[2]), get_mat(elements, y[1], y[2]))
     IN  /\ call' = [op |-> "get_int_product", arg |-> <<x, y>>,
                     ret |-> get_int(elements, prod)]
         /\ elements' = get_int_elements(elements, prod)
  /\ UNCHANGED <<element_list, current, revisits, built>>

CallGetMat == pc = "done" /\ \E p \in IntPairs : GetMat(p[1], p[2])

CallGetInt == pc = "done" /\ \E mat_data \in Matrices : GetInt(mat_data)

CallGetIntOfProduct ==
  pc = "done" /\ \E x \in IntPairs, y \in IntPairs : GetIntOfProduct(x, y)

\* The caller (the loops of int2mat and mat2int) takes the result and goes on.
Resume ==
  /\ pc = "returned"
  /\ pc' = "done"
  /\ call' = NoCall
  /\ UNCHANGED <<element_list, current, revisits, elements, built, ncalls>>

Next ==
  \/ Iterate
  \/ Construct
  \/ CallGetMat
  \/ CallGetInt
  \/ CallGetIntOfProduct
  \/ Resume

Spec == Init /\ [][Next]_vars

\* ------------------------------------------------------------ vocabulary

Transpose(a) ==
  << <<a[1][1], a[2][1], a[3][1]>>,
     <<a[1][2], a[2][2], a[3][2]>>,
     <<a[1][3], a[2][3], a[3][3]>> >>

Det(a) ==
    a[1][1] * (a[2][2] * a[3][3] - a[2][3] * a[3][2])
  - a[1][2] * (a[2][1] * a[3][3] - a[2][3] * a[3][1])
  + a[1][3] * (a[2][1] * a[3][2] - a[2][2] * a[3][1])

NonZero(row) == {j \in 1..3 : row[j] # 0}

\* One nonzero entry, +1 or -1, in every row and every column
IsSignedPerm(M) ==
  /\ \A i \in 1..3 : Cardinality(NonZero(M[i])) = 1
  /\ \A j \in 1..3 : Cardinality(NonZero(Transpose(M)[j])) = 1

SignedPerms == {M \in Matrices : IsSignedPerm(M)}

Rotations == {M \in SignedPerms : Det(M) = 1}

IsAscending(L) == \A k \in 1..(Len(L) - 1) : Less(L[k], L[k + 1])

IsCanonical(L) ==
  /\ Len(L) = 24
  /\ Range(L) = Rotations
  /\ IsAscending(L)

Exiting == pc = "loop" /\ ~(Len(element_list) < GroupOrder)

Constructed == pc \in {"done", "returned"}

\* ------------------------------------------------------------------ C1

\* C1: whatever multipliers were chosen, the list the loop exits with, and
\* the list stored in self.elements, is the 24 rotation matrices in ascending
\* lexicographic order; that list is unique, so every container holds the same.
C1_CanonicalList ==
  /\ Exiting => IsCanonical(element_list)
  /\ Constructed => IsCanonical(elements)

\* A run that revisited present elements on its way exits the loop.
C1_Witness == Exiting /\ revisits = MaxRevisits /\ IsCanonical(element_list)

\* ------------------------------------------------------------------ C2

Returned(op) == pc = "returned" /\ call.op = op

\* C2: for each of the 48 pairs (i, m), get_int of the matrix get_mat(i, m)
\* returns is exactly (i, m), without raising.
C2_IntMatInt ==
  Returned("get_mat") =>
    get_int(elements, call.ret) = [raised |-> FALSE, i |-> call.arg[1], m |-> call.arg[2]]

\* get_mat has returned the mirrored matrix of the last index.
C2_Witness ==
  /\ Returned("get_mat")
  /\ call.arg = <<23, 1>>
  /\ get_int(elements, call.ret).i = 23

\* ------------------------------------------------------------------ C3

\* C3: for each of the 48 signed permutation matrices y, get_int(y) returns
\* without error a pair (i, m) with i in 0..23 and m in {0,1} such that
\* get_mat(i, m) = y; and the 48 pairs map to 48 distinct matrices.
C3_OntoAndInverse ==
  /\ (Returned("get_int") /\ call.arg \in SignedPerms) =>
       /\ ~call.ret.raised
       /\ call.ret.i \in 0..23
       /\ call.ret.m \in {0, 1}
       /\ get_mat(elements, call.ret.i, call.ret.m) = call.arg
  /\ pc = "done" =>
       Cardinality({get_mat(elements, p[1], p[2]) : p \in IntPairs}) = 48

\* get_int has returned for a signed permutation matrix of determinant -1.
C3_Witness ==
  /\ Returned("get_int")
  /\ call.arg \in SignedPerms
  /\ Det(call.arg) = -1
  /\ call.ret.m = 1

\* ------------------------------------------------------------------ C4

\* Whether, with the list L unchanged so far, some sequence of choices starting
\* from a running matrix in frontier makes an iteration insert a new element.
RECURSIVE CanInsertFrom(_, _, _)
CanInsertFrom(L, frontier, visited) ==
  \/ \E c \in frontier : \E m \in Choices(L) :
       Len(LoopBody(L, c, m).element_list) > Len(L)
  \/ LET reached == {LoopBody(L, c, m).current : c \in frontier, m \in Choices(L)}
         fresh == reached \ visited
     IN  fresh # {} /\ CanInsertFrom(L, fresh, visited \cup fresh)

\* C4: from every reachable state of the loop with fewer than 24 elements some
\* finite sequence of multiplier choices inserts a new element (so the loop
\* cannot be trapped below 24 elements, and a fair random choice ends it).
C4_CanAlwaysGrow ==
  (pc = "loop" /\ Len(element_list) < GroupOrder) =>
    CanInsertFrom(element_list, {current}, {current})

\* A state one element short of the exit, from which every choice is a revisit.
C4_Witness ==
  /\ pc = "loop"
  /\ Len(element_list) = 23
  /\ \A m \in Choices(element_list) : Contains(element_list, Product(current, m))

\* ------------------------------------------------------------------ C5

\* C5: for each of the 48 pairs (i, j), M = get_mat(i, j) has entries in
\* {-1,0,1}, determinant (-1)^j, and M times its transpose is the identity.
C5_DetAndOrthogonal ==
  Returned("get_mat") =>
    /\ call.ret \in Matrices
    /\ Det(call.ret) = (IF call.arg[2] = 0 THEN 1 ELSE -1)
    /\ Mul(call.ret, Transpose(call.ret)) = Identity

\* get_mat has returned a matrix of determinant -1.
C5_Witness == Returned("get_mat") /\ call.arg[2] = 1 /\ Det(call.ret) = -1

\* ------------------------------------------------------------------ C6

IsClosed(L) == \A j \in 1..Len(L), k \in 1..Len(L) : Contains(L, Mul(L[j], L[k]))

\* C6: the list get_elements returns is closed under matrix multiplication
\* and contains the identity matrix, for every terminating run.
C6_ClosedWithIdentity ==
  /\ Exiting => IsClosed(element_list) /\ Contains(element_list, Identity)
  /\ (pc = "done" /\ ncalls = 0) => IsClosed(elements) /\ Contains(elements, Identity)

\* The list has just been returned and stored; it holds the identity.
C6_Witness == pc = "done" /\ ncalls = 0 /\ Len(elements) = 24 /\ Contains(elements, Identity)

\* ------------------------------------------------------------------ C7

\* C7: for every matrix with entries in {-1,0,1} that is not a signed
\* permutation matrix, get_int raises: the matrix is absent from the list
\* (m = 1) and so is its negation; and get_int succeeds exactly when the
\* matrix or its negation is in the list.
C7_LookupError ==
  Returned("get_int") =>
    /\ call.arg \notin SignedPerms =>
         /\ call.ret.raised
         /\ ~Contains(elements, call.arg)
         /\ ~Contains(elements, Scale(call.arg, -1))
    /\ ~call.ret.raised <=>
         (Contains(elements, call.arg) \/ Contains(elements, Scale(call.arg, -1)))

\* get_int has raised for a matrix that is not a signed permutation matrix.
C7_Witness ==
  /\ Returned("get_int")
  /\ call.arg \notin SignedPerms
  /\ call.ret.raised

\* ------------------------------------------------------------------ C8

\* C8: after any sequence of get_mat and get_int calls, self.elements equals
\* the list built at construction, and get_mat(i, 0) returns its i-th entry.
C8_ElementsUnchanged ==
  Constructed =>
    /\ elements = built
    /\ (Returned("get_mat") /\ call.arg[2] = 0) => call.ret = built[call.arg[1] + 1]

\* A second call, get_mat(i, 0), has returned after an earlier conversion.
C8_Witness ==
  /\ Returned("get_mat")
  /\ ncalls = 2
  /\ call.arg[2] = 0
  /\ call.ret = built[call.arg[1] + 1]

\* ------------------------------------------------------------------ C9

IsDistinct(L) == \A j \in 1..Len(L), k \in 1..Len(L) : L[j] = L[k] => j = k

LoopInvariant ==
  pc = "loop" =>
    /\ IsDistinct(element_list)
    /\ Range(element_list) \subseteq Rotations
    /\ Contains(element_list, g1)
    /\ Contains(element_list, g2)
    /\ Len(element_list) <= 24

IterationEffect ==
  (pc = "loop" /\ pc' = "loop") =>
    /\ Contains(element_list, current') =>
         Range(element_list') = Range(element_list) /\ Len(element_list') = Len(element_list)
    /\ ~Contains(element_list, current') =>
         Range(element_list') = Range(element_list) \cup {current'}
           /\ Len(element_list') = Len(element_list) + 1

ExitEffect == (pc = "loop" /\ pc' = "done") => Len(elements') = 24

\* C9: in the loop the list holds pairwise distinct rotations, among them g1
\* and g2, and never more than 24; an iteration whose product is present keeps
\* the contents, one whose product is new adds exactly that matrix; the loop
\* exits with exactly 24 entries.
C9_LoopInvariant == [](LoopInvariant) /\ [][IterationEffect /\ ExitEffect]_vars

\* An iteration has just found its product already present, late in the run.
C9_Witness == pc = "loop" /\ revisits > 0 /\ Len(element_list) = 23

\* ------------------------------------------------------------------ C10

\* C10: for all pairs x = (i1, m1), y = (i2, m2), get_int of the product
\* get_mat(x) . get_mat(y) does not raise and returns (i, m) with i in 0..23
\* and m = (m1 + m2) mod 2.
C10_ProductStaysEncoded ==
  Returned("get_int_product") =>
    /\ ~call.ret.raised
    /\ call.ret.i \in 0..23
    /\ call.ret.m = (call.arg[1][2] + call.arg[2][2]) % 2

\* The product of two mirrored elements has been converted: a rotation.
C10_Witness ==
  /\ Returned("get_int_product")
  /\ call.arg[1][2] = 1
  /\ call.arg[2][2] = 1
  /\ call.ret.m = 0

====
